---- MODULE Spec2Model ----
(***************************************************************************)
(* QwertyPiano (src/src/QwertyPiano.tsx): the voice manager, the recorder  *)
(* and the polling playback loop of the React component, as a state        *)
(* machine.                                                                *)
(*                                                                         *)
(* Refs (activeVoices, downSet, recordStartRef) are shared mutable state.  *)
(* React state (octave, sustain, isRecording, recording) is read through   *)
(* the closure of the render in which a callback was created: the keyboard *)
(* handlers are re-registered on every change (effect deps, line 251) and  *)
(* read the current values, while a setTimeout or requestAnimationFrame    *)
(* callback keeps the values of the render that created it.                *)
(*                                                                         *)
(* Time is performance.now() in milliseconds, read at ClockReadings.        *)
(* The clock is read only by pushRecord and playRecording, and only        *)
(* differences of readings are used, so it advances only while a recording *)
(* or a playback can read it: between two steps (tick) and between the two *)
(* readings one handler makes (lines 255 and 256, lines 270 and 272).      *)
(* setTimeout and requestAnimationFrame callbacks are pending tasks that   *)
(* the host runs at some later step.                                       *)
(***************************************************************************)
EXTENDS Integers, Sequences, FiniteSets, TLC

VARIABLES
    octave,        \* useState(4), line 128
    sustain,       \* useState(false), line 129
    isRecording,   \* useState(false), line 139
    recording,     \* useState([]), line 140: sequence of references into events
    events,        \* the recorded event objects {key, type, t, __scheduled}
    recordStartRef,\* useRef(null), line 141: <<>> is null, <<t0>> is set
    activeVoices,  \* useRef(new Map()), line 136: key -> reference into voices
    voices,        \* the Voice objects that sound or have a timer pending
    downSet,       \* useRef(new Set()), line 205
    plays,         \* pending requestAnimationFrame(sched): pid -> closure
    nplays,        \* history: playRecording invocations that ran sched
    clickTimers,   \* pending setTimeout(() => stopNote(k)) of handleClickKey
    now,           \* performance.now()
    dispatchLog,   \* history: the startNote/stopNote calls made by sched
    probe,         \* the pitches resolved for (key, octave) pairs, SpecPitch only
    lastOp         \* history: the handler or callback that ran last

vars == <<octave, sustain, isRecording, recording, events, recordStartRef,
          activeVoices, voices, downSet, plays, nplays, clickTimers, now,
          dispatchLog, probe, lastOp>>

----------------------------------------------------------------------------
(* Bounds of the model *)

MaxEvents == 2
MaxVoices == 2
MaxPlays == 2
MaxTimers == 2
MaxReleases == 2
MaxProbes == 2
MaxUlps == 1

(* Program constants *)

OctaveInit == 4
OctaveMin == 1
OctaveMax == 8
LookaheadMs == 5
SemitonesPerOctave == 12
ConcertMidi == 69

(* The values performance.now() is read at: an offset of 6 ms is not due   *)
(* at elapsed 0 and is due, 4 ms early, at elapsed 2.                      *)
ClockReadings == {0, 6, 8}

(* The keys the environment presses or clicks: mapped keys in both cases,  *)
(* an unmapped key and the space bar.                                      *)
PressedKeys == {"a", "A", "w", "q", " "}
RecordedKeys == {"a", "q", " "}
ClickedKeys == {"A", "W"}
OctaveKeys == {"a", "]", "["}

(* the keys whose pitch is resolved in SpecPitch: H is an A (midi - 69 a  *)
(* multiple of 12), J and ; are not                                       *)
PitchKeys == {"h", "j", ";"}

KEY_TO_OFFSET ==
    [k \in {"A", "W", "S", "E", "D", "F", "T", "G", "Y", "H", "U", "J", "K",
            "O", "L", "P", ";", "'"} |->
        CASE k = "A" -> 0  [] k = "W" -> 1  [] k = "S" -> 2  [] k = "E" -> 3
          [] k = "D" -> 4  [] k = "F" -> 5  [] k = "T" -> 6  [] k = "G" -> 7
          [] k = "Y" -> 8  [] k = "H" -> 9  [] k = "U" -> 10 [] k = "J" -> 11
          [] k = "K" -> 12 [] k = "O" -> 13 [] k = "L" -> 14 [] k = "P" -> 15
          [] k = ";" -> 16 [] k = "'" -> 17]

LowerToUpper ==
    [c \in {"a", "w", "s", "e", "d", "f", "t", "g", "y", "h", "u", "j", "k",
            "o", "l", "p", "q"} |->
        CASE c = "a" -> "A" [] c = "w" -> "W" [] c = "s" -> "S" [] c = "e" -> "E"
          [] c = "d" -> "D" [] c = "f" -> "F" [] c = "t" -> "T" [] c = "g" -> "G"
          [] c = "y" -> "Y" [] c = "h" -> "H" [] c = "u" -> "U" [] c = "j" -> "J"
          [] c = "k" -> "K" [] c = "o" -> "O" [] c = "l" -> "L" [] c = "p" -> "P"
          [] c = "q" -> "Q"]

toUpperCase(key) ==
    IF key \in DOMAIN LowerToUpper THEN LowerToUpper[key] ELSE key

(* an increment without its clamp *)
MinUnclamped(a, b) == b

Min(a, b) == IF a <= b THEN a ELSE b

Max(a, b) == IF a >= b THEN a ELSE b

(* keyToMidi reading the octave of the first render *)
keyToMidiFirstRender(key, oct) ==
    LET k == toUpperCase(key) IN
    IF k \notin DOMAIN KEY_TO_OFFSET THEN <<>>
    ELSE <<SemitonesPerOctave * (OctaveInit + 1) + KEY_TO_OFFSET[k]>>

(* keyToMidi: <<>> is null, <<m>> is the MIDI number *)
keyToMidi(key, oct) ==
    LET k == toUpperCase(key) IN
    IF k \notin DOMAIN KEY_TO_OFFSET THEN <<>>
    ELSE <<SemitonesPerOctave * (oct + 1) + KEY_TO_OFFSET[k]>>

(* Math.pow returns an implementation-approximated value and the two     *)
(* products and the quotient of line 42 are rounded to doubles: the       *)
(* result of midiToFreq is the double nearest the exact frequency,        *)
(* displaced by a number of units in the last place drawn from this set   *)
PowRounding == (0 - MaxUlps)..MaxUlps

(* midiToFreq with the frequency folded into the octave of A4 *)
midiToFreqPitchClass(midi, r) ==
    [semis |-> (midi - ConcertMidi) % SemitonesPerOctave,
     ulps |-> IF (midi - ConcertMidi) % SemitonesPerOctave = 0 THEN 0 ELSE r]

(* line 42: 440 * Math.pow(2, (midi - 69) / 12).  The double it returns   *)
(* is written [semis, ulps]: 440 * 2^(semis / 12), displaced by ulps      *)
(* units in the last place.  When midi - 69 is a multiple of 12 the       *)
(* quotient is an integer, the power of two and its product with 440 are  *)
(* exact and ulps is 0; otherwise ulps is r, the rounding of this call.   *)
midiToFreq(midi, r) ==
    [semis |-> midi - ConcertMidi,
     ulps |-> IF (midi - ConcertMidi) % SemitonesPerOctave = 0 THEN 0 ELSE r]

(* 2 * f for a double f: doubling is exact and keeps the displacement *)
twice(f) == [semis |-> f.semis + SemitonesPerOctave, ulps |-> f.ulps]

----------------------------------------------------------------------------
(* class Voice, lines 53-125.  releases counts the release() calls that     *)
(* passed the ended guard, timers the pending setTimeout(() => this.stop()) *)
(* callbacks.  deferred and sus are history, kept while the Voice is in      *)
(* activeVoices: a note-off took the sustain branch of stopNote (lines      *)
(* 189-192) for it; the sustain flag was on at some time since it started.  *)

NewVoice(k, midi) ==
    [key |-> k, midi |-> midi, ended |-> FALSE, releases |-> 0, timers |-> 0,
     deferred |-> FALSE, sus |-> FALSE]

(* release without the ended test of line 107 *)
VoiceReleaseUnguarded(v) ==
    [v EXCEPT !.releases = @ + 1, !.timers = @ + 1, !.deferred = FALSE,
              !.sus = FALSE]

VoiceRelease(v) ==
    IF v.ended THEN v
    ELSE [v EXCEPT !.releases = @ + 1, !.timers = @ + 1, !.deferred = FALSE,
                   !.sus = FALSE]

VoiceStop(v) ==
    IF v.ended THEN v
    ELSE [v EXCEPT !.ended = TRUE]

----------------------------------------------------------------------------
(* The voice manager.  vm is [active, voices, down]: the activeVoices map,  *)
(* the Voice objects (by reference number) and downSet.                     *)

EmptyMap == [k \in {} |-> 0]

MapDelete(f, k) == [x \in DOMAIN f \ {k} |-> f[x]]

(* new Voice(...): the lowest reference number not in use *)
FreshId(vs) == CHOOSE i \in 1..(Cardinality(DOMAIN vs) + 1) : i \notin DOMAIN vs

(* highlightKey that adds but never deletes *)
highlightKeyAddOnly(down, k, isDown) ==
    IF isDown THEN down \cup {k} ELSE down

highlightKey(down, k, isDown) ==
    IF isDown THEN down \cup {k} ELSE down \ {k}

(* startNote without the has() test of line 174 *)
startNoteRetrigger(vm, key, oct) ==
    LET k == toUpperCase(key)
        midi == keyToMidi(k, oct)
        id == FreshId(vm.voices)
    IN  IF midi = <<>> THEN vm
        ELSE [active |-> (k :> id) @@ vm.active,
              voices |-> (id :> NewVoice(k, midi[1])) @@ vm.voices,
              down |-> highlightKey(vm.down, k, TRUE)]

startNote(vm, key, oct) ==
    LET k == toUpperCase(key)
        midi == keyToMidi(k, oct)
        id == FreshId(vm.voices)
    IN  IF k \in DOMAIN vm.active THEN vm
        ELSE IF midi = <<>> THEN vm
        ELSE [active |-> (k :> id) @@ vm.active,
              voices |-> (id :> NewVoice(k, midi[1])) @@ vm.voices,
              down |-> highlightKey(vm.down, k, TRUE)]

(* stopNote that drops the map entry without calling release *)
stopNoteNoRelease(vm, key, sus) ==
    LET k == toUpperCase(key) IN
    IF k \notin DOMAIN vm.active THEN vm
    ELSE IF sus
         THEN [vm EXCEPT !.voices[vm.active[k]].deferred = TRUE]
         ELSE [active |-> MapDelete(vm.active, k),
               voices |-> vm.voices,
               down |-> highlightKey(vm.down, k, FALSE)]

stopNote(vm, key, sus) ==
    LET k == toUpperCase(key) IN
    IF k \notin DOMAIN vm.active THEN vm
    ELSE IF sus
         THEN [vm EXCEPT !.voices[vm.active[k]].deferred = TRUE]
         ELSE [active |-> MapDelete(vm.active, k),
               voices |-> [vm.voices EXCEPT ![vm.active[k]] = VoiceRelease(@)],
               down |-> highlightKey(vm.down, k, FALSE)]

(* allNotesOff that clears the map without releasing the Voices *)
allNotesOffNoRelease(vm) ==
    [active |-> EmptyMap, voices |-> vm.voices, down |-> {}]

allNotesOff(vm) ==
    [active |-> EmptyMap,
     voices |-> [i \in DOMAIN vm.voices |->
                    IF \E k \in DOMAIN vm.active : vm.active[k] = i
                    THEN VoiceRelease(vm.voices[i]) ELSE vm.voices[i]],
     down |-> {}]

VM == [active |-> activeVoices, voices |-> voices, down |-> downSet]

(* Writes a voice-manager result back.  A Voice that is in the result's    *)
(* map and was not in activeVoices was constructed in this step: its sus    *)
(* history starts at the current sustain flag.                              *)
SetVM(vm) ==
    /\ DOMAIN vm.voices \subseteq 1..MaxVoices
    /\ activeVoices' = vm.active
    /\ voices' = [i \in DOMAIN vm.voices |->
                    IF /\ \E k \in DOMAIN vm.active : vm.active[k] = i
                       /\ ~\E k \in DOMAIN activeVoices : activeVoices[k] = i
                    THEN [vm.voices[i] EXCEPT !.sus = sustain]
                    ELSE vm.voices[i]]
    /\ downSet' = vm.down

(* the sustain flag changes: every Voice in activeVoices has seen it on *)
MarkSus ==
    voices' = [i \in DOMAIN voices |->
                 IF \E k \in DOMAIN activeVoices : activeVoices[k] = i
                 THEN [voices[i] EXCEPT !.sus = TRUE] ELSE voices[i]]

----------------------------------------------------------------------------
(* The recorder, lines 254-266.  rs is [recording, events, start].  An     *)
(* event object is {key, type, t} plus the __scheduled property that sched  *)
(* adds; scheduled is its truthiness (undefined and false are both falsy,   *)
(* and sched only ever tests !ev.__scheduled).                              *)

(* clock0 is the reading of line 255, made only when recordStartRef is     *)
(* null; clock is the reading of line 256                                  *)
pushRecord(rs, key, type, clock0, clock) ==
    LET t0 == IF rs.start # <<>> THEN rs.start[1] ELSE clock0
        t == clock - t0
        ev == [key |-> toUpperCase(key), type |-> type, t |-> t,
               scheduled |-> FALSE]
    IN  [recording |-> Append(rs.recording, Len(rs.events) + 1),
         events |-> Append(rs.events, ev),
         start |-> <<t0>>]

(* lines 233, 240: if (isRecording) pushRecord(k, type) *)
(* record without the isRecording test *)
recordAlways(rs, on, key, type, clock0, clock) ==
    pushRecord(rs, key, type, clock0, clock)

record(rs, on, key, type, clock0, clock) ==
    IF on THEN pushRecord(rs, key, type, clock0, clock) ELSE rs

(* The readings a handler that calls pushRecord can get at line 256: the   *)
(* clock moves within the handler only between the readings of lines 255   *)
(* and 256.                                                                *)
readAgain(on, start) ==
    {c \in ClockReadings : c >= now /\ (c > now => on /\ start = <<>>)}

RS == [recording |-> recording, events |-> events, start |-> recordStartRef]

SetRS(rs) ==
    /\ Len(rs.events) <= MaxEvents
    /\ recording' = rs.recording
    /\ events' = rs.events
    /\ recordStartRef' = rs.start

----------------------------------------------------------------------------
(* playRecording.sched, lines 271-285.  pl is the closure of one            *)
(* playRecording invocation: start, the recording array it read (evs) and   *)
(* the octave and sustain of the render whose startNote/stopNote it calls;  *)
(* solo is history: no earlier playback was pending when it was invoked.    *)
(* st is [vm, events, log].                                                 *)

(* a lookahead one millisecond longer than that of line 278 *)
dueLonger(t, elapsed) == t <= elapsed + LookaheadMs + 1

(* line 278: ev.t <= now + 5 *)
due(t, elapsed) == t <= elapsed + LookaheadMs

(* lines 273-275: if (!ev.__scheduled) ev.__scheduled = false, for each   *)
(* element of the array from the i-th on                                   *)
RECURSIVE initFlagsFrom(_, _, _)
initFlagsFrom(evs, objs, i) ==
    IF i > Len(evs) THEN objs
    ELSE initFlagsFrom(evs,
                       IF ~objs[evs[i]].scheduled
                       THEN [objs EXCEPT ![evs[i]].scheduled = FALSE]
                       ELSE objs,
                       i + 1)

(* a reset that clears the flag of every element at every check *)
RECURSIVE initFlagsReset(_, _)
initFlagsReset(evs, objs) ==
    IF evs = <<>> THEN objs
    ELSE initFlagsReset(Tail(evs), [objs EXCEPT ![Head(evs)].scheduled = FALSE])

initFlags(evs, objs) == initFlagsFrom(evs, objs, 1)

(* lines 280-281 *)
dispatch(vm, ev, pl) ==
    IF ev.type = "down" THEN startNote(vm, ev.key, pl.octave)
    ELSE stopNote(vm, ev.key, pl.sustain)

(* forEach visiting the array from its end *)
visitBackwards(evs, i) == evs[Len(evs) + 1 - i]

(* the order in which forEach (line 276) visits the array *)
visit(evs, i) == evs[i]

(* lines 276-283: the second forEach, from its i-th visit on *)
RECURSIVE schedLoop(_, _, _, _, _)
schedLoop(st, pl, pid, elapsed, i) ==
    IF i > Len(pl.evs) THEN st
    ELSE LET e == visit(pl.evs, i)
             ev == st.events[e]
         IN  IF ~ev.scheduled /\ due(ev.t, elapsed)
             THEN schedLoop(
                    [vm |-> dispatch(st.vm, ev, pl),
                     events |-> [st.events EXCEPT ![e].scheduled = TRUE],
                     log |-> Append(st.log, [ev |-> e, play |-> pid,
                                              elapsed |-> elapsed])],
                    pl, pid, elapsed, i + 1)
             ELSE schedLoop(st, pl, pid, elapsed, i + 1)

(* line 284 *)
pending(evs, objs) == \E i \in DOMAIN evs : ~objs[evs[i]].scheduled

sched(st, pl, pid, clock) ==
    schedLoop([st EXCEPT !.events = initFlags(pl.evs, st.events)],
              pl, pid, clock - pl.start, 1)

ST == [vm |-> VM, events |-> events, log |-> dispatchLog]

SetST(st) ==
    /\ SetVM(st.vm)
    /\ events' = st.events
    /\ dispatchLog' = st.log

----------------------------------------------------------------------------
(* Handlers *)

(* lines 220-235 *)
handleDown(key) ==
    LET k == toUpperCase(key) IN
    IF k = " "
    THEN /\ sustain' = ~sustain
         /\ MarkSus
         /\ UNCHANGED probe
         /\ lastOp' = "setSustain"
         /\ UNCHANGED <<octave, isRecording, recording, events, recordStartRef,
                        activeVoices, downSet, plays, nplays,
                        clickTimers, now, dispatchLog>>
    ELSE /\ octave' = IF k = "]" THEN Min(OctaveMax, octave + 1)
                      ELSE IF k = "[" THEN Max(OctaveMin, octave - 1)
                      ELSE octave
         /\ IF k \in DOMAIN KEY_TO_OFFSET
            THEN /\ SetVM(startNote(VM, k, octave))
                 /\ \E c \in readAgain(isRecording, recordStartRef) :
                      /\ SetRS(record(RS, isRecording, k, "down", now, c))
                      /\ now' = c
            ELSE UNCHANGED <<activeVoices, voices, downSet, recording, events,
                             recordStartRef, now>>
         /\ UNCHANGED probe
         /\ lastOp' = IF k \in {"]", "["}
                      THEN IF octave' = octave THEN "octaveClamped"
                           ELSE "setOctave"
                      ELSE IF k \in DOMAIN activeVoices THEN "repeatDown"
                      ELSE "keyDown"
         /\ UNCHANGED <<sustain, isRecording, plays, nplays, clickTimers,
                        dispatchLog>>

(* lines 236-243 *)
handleUp(key) ==
    LET k == toUpperCase(key) IN
    /\ IF k \in DOMAIN KEY_TO_OFFSET
       THEN /\ \E c \in readAgain(isRecording, recordStartRef) :
                 /\ SetRS(record(RS, isRecording, k, "up", now, c))
                 /\ now' = c
            /\ SetVM(stopNote(VM, k, sustain))
       ELSE UNCHANGED <<activeVoices, voices, downSet, recording, events,
                        recordStartRef, now>>
    /\ UNCHANGED probe
    /\ lastOp' = "keyUp"
    /\ UNCHANGED <<octave, sustain, isRecording, plays, nplays, clickTimers,
                   dispatchLog>>

TimerCount ==
    clickTimers[<<"A", TRUE>>] + clickTimers[<<"A", FALSE>>]
    + clickTimers[<<"W", TRUE>>] + clickTimers[<<"W", FALSE>>]

(* lines 294-297: the timer keeps the stopNote of this render *)
handleClickKey(k) ==
    /\ TimerCount < MaxTimers
    /\ SetVM(startNote(VM, k, octave))
    /\ clickTimers' = [clickTimers EXCEPT ![<<k, sustain>>] = @ + 1]
    /\ UNCHANGED probe
    /\ lastOp' = IF k \in DOMAIN activeVoices THEN "repeatDown" ELSE "click"
    /\ UNCHANGED <<octave, sustain, isRecording, recording, events,
                   recordStartRef, plays, nplays, now, dispatchLog>>

(* line 296: () => stopNote(k), run by the host *)
clickTimerFires(k, sus) ==
    /\ clickTimers[<<k, sus>>] > 0
    /\ clickTimers' = [clickTimers EXCEPT ![<<k, sus>>] = @ - 1]
    /\ SetVM(stopNote(VM, k, sus))
    /\ UNCHANGED probe
    /\ lastOp' = "clickUp"
    /\ UNCHANGED <<octave, sustain, isRecording, recording, events,
                   recordStartRef, plays, nplays, now, dispatchLog>>

(* line 354: the controlled checkbox reports the complement of its value *)
sustainCheckbox ==
    /\ sustain' = ~sustain
    /\ MarkSus
    /\ UNCHANGED probe
    /\ lastOp' = "setSustain"
    /\ UNCHANGED <<octave, isRecording, recording, events, recordStartRef,
                   activeVoices, downSet, plays, nplays, clickTimers,
                   now, dispatchLog>>

(* lines 328, 330 *)
octaveButton(d) ==
    /\ octave' = IF d = 1 THEN Min(OctaveMax, octave + 1)
                 ELSE Max(OctaveMin, octave - 1)
    /\ UNCHANGED probe
    /\ lastOp' = IF octave' = octave THEN "octaveClamped" ELSE "setOctave"
    /\ UNCHANGED <<sustain, isRecording, recording, events, recordStartRef,
                   activeVoices, voices, downSet, plays, nplays, clickTimers,
                   now, dispatchLog>>

(* lines 260-264; the Record button is rendered while not recording *)
startRecording ==
    /\ ~isRecording
    /\ recording' = <<>>
    /\ recordStartRef' = <<>>
    /\ isRecording' = TRUE
    /\ UNCHANGED probe
    /\ lastOp' = "startRecording"
    /\ UNCHANGED <<octave, sustain, events, activeVoices, voices, downSet,
                   plays, nplays, clickTimers, now, dispatchLog>>

(* line 266; the Stop button is rendered while recording *)
stopRecording ==
    /\ isRecording
    /\ isRecording' = FALSE
    /\ UNCHANGED probe
    /\ lastOp' = "stopRecording"
    /\ UNCHANGED <<octave, sustain, recording, events, recordStartRef,
                   activeVoices, voices, downSet, plays, nplays, clickTimers,
                   now, dispatchLog>>

(* playRecording without the length test of line 269 *)
playRecordingUnguarded ==
    /\ nplays < MaxPlays
    /\ nplays' = nplays + 1
    /\ \E c \in {r \in ClockReadings : r >= now} :
         LET pl == [start |-> now, evs |-> recording,
                    octave |-> octave, sustain |-> sustain,
                    solo |-> DOMAIN plays = {}]
             pid == nplays + 1
             st == sched(ST, pl, pid, c)
         IN  /\ SetST(st)
             /\ plays' = IF pending(pl.evs, st.events)
                         THEN (pid :> pl) @@ plays
                         ELSE plays
             /\ now' = c
    /\ UNCHANGED probe
    /\ lastOp' = "playRecording"
    /\ UNCHANGED <<octave, sustain, isRecording, recording, recordStartRef,
                   clickTimers>>

(* lines 268-287: the first sched() runs inside playRecording, its reading *)
(* of the clock (line 272) following that of line 270; line 284 leaves a   *)
(* callback pending while an event of the array is unscheduled             *)
playRecording ==
    /\ IF Len(recording) = 0
       THEN UNCHANGED <<events, activeVoices, voices, downSet, plays, nplays,
                        dispatchLog, now>>
       ELSE /\ nplays < MaxPlays
            /\ nplays' = nplays + 1
            /\ \E c \in {r \in ClockReadings : r >= now} :
                 LET pl == [start |-> now, evs |-> recording,
                            octave |-> octave, sustain |-> sustain,
                            solo |-> DOMAIN plays = {}]
                     pid == nplays + 1
                     st == sched(ST, pl, pid, c)
                 IN  /\ SetST(st)
                     /\ plays' = IF pending(pl.evs, st.events)
                                 THEN (pid :> pl) @@ plays
                                 ELSE plays
                     /\ now' = c
    /\ UNCHANGED probe
    /\ lastOp' = "playRecording"
    /\ UNCHANGED <<octave, sustain, isRecording, recording, recordStartRef,
                   clickTimers>>

(* line 284: requestAnimationFrame(sched), run by the host *)
schedFrame(pid) ==
    /\ LET st == sched(ST, plays[pid], pid, now)
       IN  /\ SetST(st)
           /\ plays' = IF pending(plays[pid].evs, st.events)
                       THEN plays
                       ELSE MapDelete(plays, pid)
    /\ UNCHANGED probe
    /\ lastOp' = "sched"
    /\ UNCHANGED <<octave, sustain, isRecording, recording, recordStartRef,
                   nplays, clickTimers, now>>

(* lines 289-291 *)
stopAll ==
    /\ SetVM(allNotesOff(VM))
    /\ UNCHANGED probe
    /\ lastOp' = "stopAll"
    /\ UNCHANGED <<octave, sustain, isRecording, recording, events,
                   recordStartRef, plays, nplays, clickTimers, now,
                   dispatchLog>>

(* line 112: setTimeout(() => this.stop()), run by the host.  A Voice that *)
(* has ended, with no timer left and no entry in activeVoices, is          *)
(* referenced by nothing and leaves the model.                             *)
voiceTimerFires(i) ==
    /\ voices[i].timers > 0
    /\ LET v == VoiceStop([voices[i] EXCEPT !.timers = @ - 1])
       IN  voices' = IF v.ended /\ v.timers = 0
                        /\ ~\E k \in DOMAIN activeVoices : activeVoices[k] = i
                     THEN MapDelete(voices, i)
                     ELSE [voices EXCEPT ![i] = v]
    /\ UNCHANGED probe
    /\ lastOp' = "voiceTimer"
    /\ UNCHANGED <<octave, sustain, isRecording, recording, events,
                   recordStartRef, activeVoices, downSet, plays, nplays,
                   clickTimers, now, dispatchLog>>

(* performance.now() advances while pushRecord or sched can read it *)
tick ==
    /\ isRecording \/ DOMAIN plays # {}
    /\ \E t \in ClockReadings : t > now /\ now' = t
    /\ UNCHANGED <<octave, sustain, isRecording, recording, events,
                   recordStartRef, activeVoices, voices, downSet, plays,
                   nplays, clickTimers, dispatchLog, lastOp, probe>>

----------------------------------------------------------------------------
Init ==
    /\ octave = OctaveInit
    /\ sustain = FALSE
    /\ isRecording = FALSE
    /\ recording = <<>>
    /\ events = <<>>
    /\ recordStartRef = <<>>
    /\ activeVoices = EmptyMap
    /\ voices = EmptyMap
    /\ downSet = {}
    /\ plays = EmptyMap
    /\ nplays = 0
    /\ clickTimers = [x \in ClickedKeys \X BOOLEAN |-> 0]
    /\ now = 0
    /\ dispatchLog = <<>>
    /\ probe = <<>>
    /\ lastOp = "init"

(* The recorder and the player, driven from the keyboard *)
Next ==
    \/ \E key \in RecordedKeys : handleDown(key)
    \/ \E key \in RecordedKeys : handleUp(key)
    \/ startRecording
    \/ stopRecording
    \/ playRecording
    \/ \E pid \in DOMAIN plays : schedFrame(pid)
    \/ stopAll
    \/ \E i \in DOMAIN voices : voiceTimerFires(i)
    \/ tick

Spec == Init /\ [][Next]_vars

(* The voice manager, driven from the keyboard and the mouse *)
NextVM ==
    \/ \E key \in PressedKeys : handleDown(key)
    \/ \E key \in PressedKeys : handleUp(key)
    \/ \E k \in ClickedKeys : handleClickKey(k)
    \/ \E k \in ClickedKeys, s \in BOOLEAN : clickTimerFires(k, s)
    \/ sustainCheckbox
    \/ stopAll
    \/ \E i \in DOMAIN voices : voiceTimerFires(i)

SpecVM == Init /\ [][NextVM]_vars

(* The host runs every pending setTimeout callback of a Voice (line 112) *)
FairVM ==
    \A i \in 1..MaxVoices : WF_vars(i \in DOMAIN voices /\ voiceTimerFires(i))

SpecVMFair == SpecVM /\ FairVM

(* The octave setting and the voice manager, driven from the keyboard,    *)
(* the mouse and the octave buttons                                       *)
NextOct ==
    \/ \E key \in OctaveKeys : handleDown(key)
    \/ \E key \in OctaveKeys : handleUp(key)
    \/ \E k \in ClickedKeys : handleClickKey(k)
    \/ \E k \in ClickedKeys, s \in BOOLEAN : clickTimerFires(k, s)
    \/ \E d \in {1, -1} : octaveButton(d)
    \/ stopAll
    \/ \E i \in DOMAIN voices : voiceTimerFires(i)

SpecOct == Init /\ [][NextOct]_vars

(* The recorder and the player with the octave raised between recording   *)
(* and playback, from the state the + button leaves one step below the    *)
(* top of the range                                                       *)
InitReplay ==
    /\ octave = OctaveMax - 1
    /\ sustain = FALSE
    /\ isRecording = FALSE
    /\ recording = <<>>
    /\ events = <<>>
    /\ recordStartRef = <<>>
    /\ activeVoices = EmptyMap
    /\ voices = EmptyMap
    /\ downSet = {}
    /\ plays = EmptyMap
    /\ nplays = 0
    /\ clickTimers = [x \in ClickedKeys \X BOOLEAN |-> 0]
    /\ now = 0
    /\ dispatchLog = <<>>
    /\ probe = <<>>
    /\ lastOp = "setOctave"

NextReplay ==
    \/ \E key \in {"a"} : handleDown(key)
    \/ \E key \in {"a"} : handleUp(key)
    \/ \E d \in {1} : octaveButton(d)
    \/ startRecording
    \/ stopRecording
    \/ playRecording
    \/ \E pid \in DOMAIN plays : schedFrame(pid)
    \/ \E i \in DOMAIN voices : voiceTimerFires(i)
    \/ tick

SpecReplay == InitReplay /\ [][NextReplay]_vars

----------------------------------------------------------------------------
(* class Voice on its own, lines 53-125: a caller constructs Voices and   *)
(* calls release() and stop() on them in any order, and the host runs the *)
(* timers that release() set.                                             *)

(* lines 61-104: new Voice(...) *)
voiceNew(k) ==
    /\ FreshId(voices) <= MaxVoices
    /\ voices' = (FreshId(voices) :> NewVoice(k, keyToMidi(k, octave)[1]))
                    @@ voices
    /\ UNCHANGED probe
    /\ lastOp' = "new"
    /\ UNCHANGED <<octave, sustain, isRecording, recording, events,
                   recordStartRef, activeVoices, downSet, plays, nplays,
                   clickTimers, now, dispatchLog>>

(* lines 106-113: voice.release() *)
voiceRelease(i) ==
    /\ voices[i].releases < MaxReleases
    /\ voices' = [voices EXCEPT ![i] = VoiceRelease(@)]
    /\ UNCHANGED probe
    /\ lastOp' = IF voices[i].ended THEN "releaseEnded" ELSE "release"
    /\ UNCHANGED <<octave, sustain, isRecording, recording, events,
                   recordStartRef, activeVoices, downSet, plays, nplays,
                   clickTimers, now, dispatchLog>>

(* lines 115-124: voice.stop() *)
voiceStop(i) ==
    /\ voices' = [voices EXCEPT ![i] = VoiceStop(@)]
    /\ UNCHANGED probe
    /\ lastOp' = IF voices[i].ended THEN "stopEnded" ELSE "stop"
    /\ UNCHANGED <<octave, sustain, isRecording, recording, events,
                   recordStartRef, activeVoices, downSet, plays, nplays,
                   clickTimers, now, dispatchLog>>

NextVoice ==
    \/ \E k \in ClickedKeys : voiceNew(k)
    \/ \E i \in DOMAIN voices : voiceRelease(i)
    \/ \E i \in DOMAIN voices : voiceStop(i)
    \/ \E i \in DOMAIN voices : voiceTimerFires(i)

SpecVoice == Init /\ [][NextVoice]_vars

----------------------------------------------------------------------------
(* keyToMidi and midiToFreq as pure functions of (key, octave): the       *)
(* computation of startNote, lines 175-178, without the Voice             *)

resolvePitch(key) ==
    LET midi == keyToMidi(key, octave) IN
    /\ Len(probe) < MaxProbes
    /\ midi # <<>>
    /\ \E r \in PowRounding :
          probe' = Append(probe, [key |-> toUpperCase(key), oct |-> octave,
                                  midi |-> midi[1],
                                  freq |-> midiToFreq(midi[1], r)])
    /\ lastOp' = "resolvePitch"
    /\ UNCHANGED <<octave, sustain, isRecording, recording, events,
                   recordStartRef, activeVoices, voices, downSet, plays,
                   nplays, clickTimers, now, dispatchLog>>

NextPitch ==
    \/ \E key \in PitchKeys : resolvePitch(key)
    \/ \E d \in {1, -1} : octaveButton(d)

SpecPitch == Init /\ [][NextPitch]_vars

----------------------------------------------------------------------------
(* Properties of the voice manager (SpecVM) *)

(* a note-off: a key-up of a mapped key, or the timer of a click *)
noteOffStep(k) ==
    \/ \E key \in PressedKeys :
          /\ toUpperCase(key) = k
          /\ k \in DOMAIN KEY_TO_OFFSET
          /\ handleUp(key)
    \/ \E s \in BOOLEAN : k \in ClickedKeys /\ clickTimerFires(k, s)

(* the Voice of key k is released in this step *)
releasedInStep(k) ==
    /\ activeVoices[k] \in DOMAIN voices'
    /\ voices'[activeVoices[k]].releases = voices[activeVoices[k]].releases + 1

(* C1: when sustain goes from true to false, every key whose note-off was *)
(* deferred while sustain was on is released and removed from the         *)
(* ActiveVoiceSet in that step, without a further key event.              *)
C1_SustainOffReleasesDeferred ==
    [][(sustain /\ ~sustain') =>
          \A k \in DOMAIN activeVoices :
             voices[activeVoices[k]].deferred =>
                k \notin DOMAIN activeVoices' /\ releasedInStep(k)]_vars

(* C4: a note-on for a key that already has a Voice creates no Voice and  *)
(* leaves the Voice objects, activeVoices and downSet as they were; in    *)
(* every state each key has at most one Voice that was not released.      *)
C4_NoteOnIdempotent ==
    /\ [](\A k \in DOMAIN KEY_TO_OFFSET :
            Cardinality({i \in DOMAIN voices :
                            voices[i].key = k /\ voices[i].releases = 0}) <= 1)
    /\ [][lastOp' = "repeatDown" =>
             UNCHANGED <<activeVoices, voices, downSet>>]_vars

(* C4 witness: a second note-on for a sounding key has just run, while     *)
(* another key sounds too                                                  *)
C4_Witness ==
    /\ lastOp = "repeatDown"
    /\ DOMAIN activeVoices = {"A", "W"}
    /\ Cardinality(DOMAIN voices) = 2

(* C5: with sustain false throughout the life of the Voice of key k, a    *)
(* note-off for k removes k from activeVoices and releases the Voice.     *)
C5_NoteOffReleases ==
    [][\A k \in DOMAIN activeVoices :
          (~sustain /\ ~voices[activeVoices[k]].sus /\ noteOffStep(k)) =>
             k \notin DOMAIN activeVoices' /\ releasedInStep(k)]_vars

(* C6: while sustain is true a note-off for an active key k releases no   *)
(* Voice and leaves activeVoices and downSet unchanged.                   *)
C6_NoteOffDefers ==
    [][\A k \in DOMAIN activeVoices :
          (sustain /\ noteOffStep(k)) =>
             /\ activeVoices' = activeVoices
             /\ downSet' = downSet
             /\ \A i \in DOMAIN voices :
                   i \in DOMAIN voices'
                   /\ voices'[i].releases = voices[i].releases]_vars

----------------------------------------------------------------------------
(* Properties of the recorder and the player (Spec) *)

(* the dispatches of event object e made by playback pid *)
dispatchesOf(log, pid, e) ==
    {j \in DOMAIN log : log[j].play = pid /\ log[j].ev = e}

(* playback pid, invoked over the array evs, stops re-arming in this step *)
playEnds(pid, evs) ==
    \/ /\ lastOp' = "playRecording" /\ nplays' = nplays + 1
       /\ pid = nplays' /\ evs = recording
       /\ DOMAIN plays = {} /\ DOMAIN plays' = {}
    \/ /\ pid \in DOMAIN plays /\ plays[pid].solo /\ evs = plays[pid].evs
       /\ DOMAIN plays = {pid} /\ DOMAIN plays' = {}

(* C2: a playRecording invocation on a non-empty recording, made while no *)
(* earlier playback is pending (a repeat of a completed playback          *)
(* included), has dispatched every recorded event exactly once when its   *)
(* scheduling loop stops re-arming.                                       *)
C2_PlayDispatchesEveryEventOnce ==
    [][\A pid \in 1..MaxPlays :
          \A evs \in {recording} \cup {plays[q].evs : q \in DOMAIN plays} :
             playEnds(pid, evs) =>
                \A i \in DOMAIN evs :
                   Cardinality(dispatchesOf(dispatchLog', pid, evs[i])) = 1]_vars

C7_AllNotesOffSilences ==
    [][lastOp' = "stopAll" =>
          /\ DOMAIN activeVoices' = {}
          /\ downSet' = {}
          /\ \A k \in DOMAIN activeVoices : releasedInStep(k)]_vars

(* C7 witness: stopAll has just run with sustain on, while recording and  *)
(* with a playback pending, and a released Voice is fading out            *)
C7_Witness ==
    /\ lastOp = "stopAll"
    /\ sustain /\ isRecording /\ DOMAIN plays # {}
    /\ DOMAIN activeVoices = {} /\ downSet = {}
    /\ \E i \in DOMAIN voices :
          voices[i].releases = 1 /\ voices[i].timers = 1 /\ ~voices[i].ended

(* the place of the dispatch of event object e in the log, 0 if none *)
dispatchedAt(e) ==
    IF \E j \in DOMAIN dispatchLog : dispatchLog[j].ev = e
    THEN CHOOSE j \in DOMAIN dispatchLog : dispatchLog[j].ev = e
    ELSE 0

(* the arrays a playback reads or may come to read *)
recordedArrays == {recording} \cup {plays[q].evs : q \in DOMAIN plays}

(* C8: of two events of a recorded sequence the later one is dispatched   *)
(* only after the earlier one has been, equal offsets included.           *)
C8_DispatchInRecordedOrder ==
    \A evs \in recordedArrays :
       \A i, j \in DOMAIN evs :
          (i < j /\ dispatchedAt(evs[j]) # 0) =>
             /\ dispatchedAt(evs[i]) # 0
             /\ dispatchedAt(evs[i]) < dispatchedAt(evs[j])

(* C8 witness: two events recorded with the same offset were dispatched *)
C8_Witness ==
    /\ Len(recording) = 2
    /\ events[recording[1]].t = events[recording[2]].t
    /\ dispatchedAt(recording[1]) # 0
    /\ dispatchedAt(recording[2]) # 0

(* C9: the first event of a session has offset zero, a later event's      *)
(* offset is its capture time less the capture time of the first, and     *)
(* the offsets do not decrease along the sequence.                        *)
C9_OffsetsFromFirstCapture ==
    /\ [](recording # <<>> =>
            /\ events[recording[1]].t = 0
            /\ \A i, j \in DOMAIN recording :
                  i < j => events[recording[i]].t <= events[recording[j]].t)
    /\ [][(Len(recording') = Len(recording) + 1 /\ Len(recording) > 0) =>
             /\ recordStartRef' = recordStartRef
             /\ events'[recording'[Len(recording')]].t
                   = now' - recordStartRef[1]]_vars

(* C10: while not recording, the recorded sequence keeps its length and   *)
(* the key, kind and offset of every event.                               *)
C10_FrozenAfterStop ==
    [][(~isRecording /\ ~isRecording') =>
          /\ recording' = recording
          /\ \A i \in DOMAIN recording :
                /\ events'[recording[i]].key = events[recording[i]].key
                /\ events'[recording[i]].type = events[recording[i]].type
                /\ events'[recording[i]].t = events[recording[i]].t]_vars

(* C10 witness: after stopRecording a key went down and started a Voice,  *)
(* and the sequence recorded before is still there                        *)
C10_Witness ==
    /\ lastOp = "keyDown"
    /\ ~isRecording
    /\ Len(recording) = 2
    /\ "A" \in DOMAIN activeVoices

(* C11: startRecording leaves the recorded sequence empty and the session *)
(* start unset, and the first event captured in a session that follows an *)
(* earlier one has offset zero.                                           *)
C11_StartRecordingResets ==
    /\ [][lastOp' = "startRecording" =>
             recording' = <<>> /\ recordStartRef' = <<>>]_vars
    /\ []((Len(events) > Len(recording) /\ recording # <<>>) =>
             events[recording[1]].t = 0)

(* C15: playRecording on an empty recording calls neither startNote nor   *)
(* stopNote, runs and arms no scheduling check, and leaves activeVoices,  *)
(* the Voice objects and downSet unchanged.                               *)
C15_EmptyPlayIsNoOp ==
    [][(lastOp' = "playRecording" /\ Len(recording) = 0) =>
          UNCHANGED <<activeVoices, voices, downSet, dispatchLog, plays,
                      nplays, events>>]_vars

(* C15 witness: playRecording has just run on an empty recording while a  *)
(* Voice sounds                                                           *)
C15_Witness ==
    /\ lastOp = "playRecording"
    /\ Len(recording) = 0
    /\ DOMAIN activeVoices # {}

(* C17: whatever playbacks overlap, no event object is dispatched more    *)
(* than once, every key of activeVoices maps to a Voice of that key, and  *)
(* no other unreleased Voice has that key.                                *)
C17_OverlapKeepsVoiceSet ==
    /\ \A e \in DOMAIN events :
          Cardinality({j \in DOMAIN dispatchLog : dispatchLog[j].ev = e}) <= 1
    /\ \A k \in DOMAIN activeVoices :
          /\ activeVoices[k] \in DOMAIN voices
          /\ voices[activeVoices[k]].key = k
    /\ \A i \in DOMAIN voices :
          voices[i].releases = 0 =>
             /\ voices[i].key \in DOMAIN activeVoices
             /\ activeVoices[voices[i].key] = i

(* C17 witness: a second playback, invoked while the first was pending,   *)
(* dispatched an event of the same recording and the first is pending     *)
(* still                                                                  *)
C17_Witness ==
    \E a, b \in DOMAIN dispatchLog :
       /\ a < b
       /\ dispatchLog[a].play # dispatchLog[b].play
       /\ dispatchLog[a].play \in DOMAIN plays
       /\ plays[dispatchLog[a].play].solo
       /\ plays[dispatchLog[a].play].evs = recording
       /\ Len(recording) = 2

(* C19: in every state downSet is the key set of activeVoices. *)
C19_DownSetIsActiveKeys ==
    downSet = DOMAIN activeVoices

(* C19 witness: a note-off deferred under sustain left both sets alone,   *)
(* after another key was released and left both                           *)
C19_Witness ==
    /\ sustain
    /\ downSet = {"A"}
    /\ voices[activeVoices["A"]].deferred
    /\ \E i \in DOMAIN voices : voices[i].key = "W" /\ voices[i].releases = 1

(* a Voice that is the value of an activeVoices entry *)
inActiveVoices(i) == \E k \in DOMAIN activeVoices : activeVoices[k] = i

(* C20: every Voice is in activeVoices, never released and not ended, or  *)
(* is outside it with release() called exactly once and its stop timer    *)
(* pending or run; a Voice outside activeVoices eventually ends.          *)
C20_NoOrphanVoice ==
    /\ [](\A i \in DOMAIN voices :
            IF inActiveVoices(i)
            THEN voices[i].releases = 0 /\ ~voices[i].ended
            ELSE /\ voices[i].releases = 1
                 /\ (voices[i].timers = 1 \/ voices[i].ended))
    /\ \A i \in 1..MaxVoices :
          (i \in DOMAIN voices /\ ~inActiveVoices(i))
             ~> (i \notin DOMAIN voices \/ voices[i].ended)

(* C20 witness: one Voice is in activeVoices and another, released, has   *)
(* its stop timer pending                                                 *)
C20_Witness ==
    /\ \E i \in DOMAIN voices : inActiveVoices(i)
    /\ \E i \in DOMAIN voices :
          ~inActiveVoices(i) /\ voices[i].releases = 1 /\ voices[i].timers = 1

----------------------------------------------------------------------------
(* Properties of class Voice (SpecVoice) *)

(* C18: once a Voice has ended it stays ended, and a release(), a stop()  *)
(* or the stop of a release timer after that changes nothing of it: no    *)
(* release is counted and no timer is set.                                *)
C18_FinishedIsAbsorbing ==
    [][\A i \in DOMAIN voices :
          (voices[i].ended /\ i \in DOMAIN voices') =>
             /\ voices'[i].ended
             /\ voices'[i].releases = voices[i].releases
             /\ voices'[i].timers <= voices[i].timers
             /\ voices'[i].key = voices[i].key
             /\ voices'[i].midi = voices[i].midi]_vars

(* C18 witness: release() has just been called on a Voice that had ended  *)
(* and still has a release timer pending                                  *)
C18_Witness ==
    /\ lastOp = "releaseEnded"
    /\ \E i \in DOMAIN voices :
          voices[i].ended /\ voices[i].timers = 1 /\ voices[i].releases = 1

----------------------------------------------------------------------------
(* Properties of the octave setting (SpecOct, SpecReplay) *)

(* the semitone index of key k at octave o, as the claims state it *)
semitone(k, o) == 12 * (o + 1) + KEY_TO_OFFSET[k]

(* the Voices constructed in this step *)
newVoices == {i \in DOMAIN voices' : i \notin DOMAIN voices}

C14_OctaveClamped ==
    /\ [](octave \in 1..8)
    /\ [][/\ (octave = 8 /\ (octaveButton(1) \/ handleDown("]")))
              => octave' = 8
          /\ (octave = 1 /\ (octaveButton(-1) \/ handleDown("[")))
              => octave' = 1]_vars

(* C14 witness: an increment has just been refused at octave 8 *)
C14_Witness ==
    lastOp = "octaveClamped" /\ octave = 8

(* C16: a recorded event holds a key, a kind and an offset (and the       *)
(* dispatch flag), and a Voice started by a replayed down event has the   *)
(* pitch of the octave setting in effect when the event is replayed.      *)
C16_ReplayUsesCurrentOctave ==
    /\ [](\A e \in DOMAIN events :
            DOMAIN events[e] = {"key", "type", "t", "scheduled"})
    /\ [][lastOp' \in {"playRecording", "sched"} =>
             \A i \in newVoices :
                voices'[i].midi = semitone(voices'[i].key, octave')]_vars

----------------------------------------------------------------------------
(* Properties of the pitch functions (SpecPitch) *)

(* two pitches resolved for the same key, the second one octave up *)
octaveApart(i, j) ==
    /\ probe[i].key = probe[j].key
    /\ probe[j].oct = probe[i].oct + 1

(* C13 as stated: for a mapped key the semitone index at octave o is      *)
(* 12*(o+1)+offset, at octave o+1 it is 12 more, and the frequency at     *)
(* octave o+1 is exactly twice the frequency at octave o.                 *)
C13_OctaveDoublesExactly ==
    \A i, j \in DOMAIN probe :
       octaveApart(i, j) =>
          /\ probe[i].midi = 12 * (probe[i].oct + 1) + KEY_TO_OFFSET[probe[i].key]
          /\ probe[j].midi = probe[i].midi + 12
          /\ probe[j].freq = twice(probe[i].freq)

(* C13 amended: the semitone index is 12*(o+1)+offset and rises by        *)
(* exactly 12 per octave; the frequency is that of a pitch 12 semitones   *)
(* up, twice the lower one up to the rounding of the two computations.    *)
C13_OctaveIsTwelveSemitones ==
    \A i, j \in DOMAIN probe :
       octaveApart(i, j) =>
          /\ probe[i].midi = 12 * (probe[i].oct + 1) + KEY_TO_OFFSET[probe[i].key]
          /\ probe[j].midi = probe[i].midi + 12
          /\ probe[j].freq.semis = twice(probe[i].freq).semis
          /\ probe[j].freq.ulps - twice(probe[i].freq).ulps
                \in (0 - 2 * MaxUlps)..(2 * MaxUlps)

(* C13 witness: J resolved at octaves 1 and 2 has semitone indices 35 and *)
(* 47, and the second frequency is not the double of the first            *)
C13_Witness ==
    /\ Len(probe) = 2
    /\ probe[1].key = "J" /\ probe[1].oct = 1 /\ probe[1].midi = 35
    /\ probe[2].key = "J" /\ probe[2].oct = 2 /\ probe[2].midi = 47
    /\ probe[2].freq # twice(probe[1].freq)

====
